---------------------------- MODULE Spec2Model ----------------------------
(* Model of process_google_photos.py: the folder-name sanitizer, the       *)
(* collision-free path chooser, the time/GPS extractors, the exiftool      *)
(* call and the main walk over the Takeout tree.                            *)
(*                                                                          *)
(* Text is a sequence of one-character strings, so that the regular         *)
(* expressions and strip calls of clean_name are computed character by      *)
(* character.  A naive datetime is the number of seconds its wall clock is  *)
(* after 1970-01-01 00:00:00; an optional value is <<>> (None) or <<v>>.    *)
EXTENDS Integers, Sequences, FiniteSets, TLC

VARIABLES
    \* ---- the run of main() ----
    pc,                 \* position in main
    srcExists,          \* the source folder exists
    exiftoolInstalled,  \* "exiftool -ver" succeeds
    nFiles,             \* number of files os.walk enumerates
    visited,            \* files the loop has finished with
    dest0,              \* the destination tree when the run started
    destRoot,           \* the destination root exists
    destDirs,           \* album folders under the destination root
    destFiles,          \* files in the destination tree
    written,            \* per (folder, filename): targets its placements wrote
    last,               \* the loop's latest iteration
    failureShown,       \* a failure line has been printed
    exitStatus,         \* <<>> while running, <<status>> once ended
    \* ---- clean_name called on its own ----
    label,              \* the label given
    cleaned,            \* the results of the successive calls
    \* ---- the extractors and write_metadata called on their own ----
    sidecar,            \* the parsed record
    use_utc,            \* get_taken_time's flag
    zoneOk,             \* ZoneInfo(tz_name) can be loaded
    step,               \* position in the per-asset sequence
    dt,                 \* get_taken_time's result
    gps,                \* get_gps's result
    cmd,                \* the exiftool arguments write_metadata built
    utime               \* the epoch given to os.utime

runVars == <<pc, srcExists, exiftoolInstalled, nFiles, visited, dest0, destRoot,
             destDirs, destFiles, written, last, failureShown, exitStatus>>
nameVars == <<label, cleaned>>
metaVars == <<sidecar, use_utc, zoneOk, step, dt, gps, cmd, utime>>
vars == <<runVars, nameVars, metaVars>>

\* ------------------------------------------------------------------ bounds
MaxLabelLen == 3
MaxCleanCalls == 2
MaxFiles == 2

\* --------------------------------------------------------------- optionals
None == <<>>
Some(v) == <<v>>

\* ------------------------------------------------------------- clean_name
IllegalChars == {"\\", "/", ":", "*", "?", "\"", "<", ">", "|"}
Whitespace == {" ", "\t", "\n", "\r", "\f"}
UnknownAlbum == <<"U", "n", "k", "n", "o", "w", "n", " ", "A", "l", "b", "u", "m">>

\* re.sub(r'[\\/:*?"<>|]', "-", name)
SubIllegal(s) == [i \in 1..Len(s) |-> IF s[i] \in IllegalChars THEN "-" ELSE s[i]]

\* re.sub(r"\s+", " ", name): every maximal run of whitespace becomes one space
RECURSIVE CollapseFrom(_, _)
CollapseFrom(s, i) ==
    IF i > Len(s) THEN <<>>
    ELSE IF s[i] \in Whitespace
         THEN IF i > 1 /\ s[i - 1] \in Whitespace
              THEN CollapseFrom(s, i + 1)
              ELSE <<" ">> \o CollapseFrom(s, i + 1)
         ELSE <<s[i]>> \o CollapseFrom(s, i + 1)
CollapseWs(s) == CollapseFrom(s, 1)

\* str.rstrip(chars) and str.lstrip(chars)
RECURSIVE RStrip(_, _)
RStrip(s, chars) ==
    IF s # <<>> /\ s[Len(s)] \in chars
    THEN RStrip(SubSeq(s, 1, Len(s) - 1), chars)
    ELSE s
RECURSIVE LStrip(_, _)
LStrip(s, chars) ==
    IF s # <<>> /\ s[1] \in chars THEN LStrip(Tail(s), chars) ELSE s
\* str.strip()
Strip(s) == RStrip(LStrip(s, Whitespace), Whitespace)

clean_name(name) ==
    IF name = <<>> THEN UnknownAlbum
    ELSE RStrip(Strip(CollapseWs(SubIllegal(name))), {".", " "})

\* ------------------------------------------- clean_name called on its own
LabelChars == {"a", " ", "\t", ".", "*"}
Labels == UNION {[1..n -> LabelChars] : n \in 0..MaxLabelLen}

RunIdle ==
    /\ pc = "idle" /\ srcExists = FALSE /\ exiftoolInstalled = FALSE
    /\ nFiles = 0 /\ visited = 0
    /\ dest0 = <<>> /\ destRoot = FALSE /\ destDirs = {} /\ destFiles = {}
    /\ written = {} /\ last = <<>> /\ failureShown = FALSE /\ exitStatus = None
NameIdle == label = <<>> /\ cleaned = <<>>
MetaIdle ==
    /\ sidecar = <<>> /\ use_utc = FALSE /\ zoneOk = FALSE /\ step = "idle"
    /\ dt = None /\ gps = <<>> /\ cmd = <<>> /\ utime = None

InitClean == RunIdle /\ MetaIdle /\ label \in Labels /\ cleaned = <<>>

\* one more call of clean_name, on the label or on the previous result
CallCleanName ==
    /\ Len(cleaned) < MaxCleanCalls
    /\ cleaned' = Append(cleaned,
                    clean_name(IF cleaned = <<>> THEN label ELSE cleaned[Len(cleaned)]))
    /\ UNCHANGED <<label, runVars, metaVars>>

NextClean == CallCleanName
SpecClean == InitClean /\ [][NextClean]_vars

\* C2: the folder label clean_name returns is never the empty string.
C2_NeverEmpty == Len(cleaned) >= 1 => cleaned[1] # <<>>

\* C9: clean_name is idempotent: cleaning a cleaned label gives it back.
C9_Idempotent == Len(cleaned) >= 2 => cleaned[2] = cleaned[1]

\* ------------------------------------------------------ the sidecar record
\* A timestamp value of the JSON document: a number, or a string (its text).
RECURSIVE Digits(_)
Digits(n) ==
    IF n < 10 THEN <<n>> ELSE Digits(n \div 10) \o <<n % 10>>
NumTs(n) == [kind |-> "num", val |-> n, text |-> <<>>]
StrTs(n) == [kind |-> "str", val |-> 0, text |-> Digits(n)]

\* Python's truth value of a timestamp value: 0 and "" are false
Truthy(v) == IF v.kind = "num" THEN v.val # 0 ELSE v.text # <<>>

\* int(ts): a number as it is, a string read digit by digit
RECURSIVE ParseDigits(_, _)
ParseDigits(ds, acc) ==
    IF ds = <<>> THEN acc ELSE ParseDigits(Tail(ds), 10 * acc + Head(ds))
IntOf(v) == IF v.kind = "num" THEN v.val ELSE ParseDigits(v.text, 0)

\* meta.get("photoTakenTime", {}).get("timestamp")
TimestampField(meta) ==
    IF meta.photoTakenTime = None THEN None
    ELSE meta.photoTakenTime[1].timestamp

\* Offset of Europe/London from UTC, in seconds, at the instant t, for the
\* instants used here (1970 and 2021): British Standard Time (+1 all year)
\* until 1971-10-31 02:00 UTC, and summer time in 2021 from 03-28 01:00 UTC
\* to 10-31 01:00 UTC.
LondonOffset(t) ==
    IF t < 57722400 THEN 3600
    ELSE IF t >= 1616893200 /\ t < 1635642000 THEN 3600
    ELSE 0

\* The result is None or Some(naive wall-clock seconds).
get_taken_time(meta, zoneLoads, useUtc) ==
    LET ts == TimestampField(meta) IN
    IF ts = None \/ ~Truthy(ts[1]) THEN None
    ELSE LET dt_utc == IntOf(ts[1]) IN
         IF useUtc THEN Some(dt_utc)
         ELSE IF zoneLoads THEN Some(dt_utc + LondonOffset(dt_utc))
         ELSE Some(dt_utc)

\* geo.get(key, 0) on meta.get("geoData", {})
GeoGet(meta, key) ==
    IF meta.geoData = None THEN 0
    ELSE IF meta.geoData[1][key] = None THEN 0
    ELSE meta.geoData[1][key][1]

\* The result is <<lat, lon>>, each None or Some(number).
get_gps(meta) ==
    LET lat == GeoGet(meta, "latitude")
        lon == GeoGet(meta, "longitude")
    IN  IF lat = 0 /\ lon = 0 THEN <<None, None>> ELSE <<Some(lat), Some(lon)>>

\* The exiftool arguments write_metadata builds (the date fields carry the
\* naive time they format) and the epoch it gives to os.utime.
DateFields(is_video) ==
    IF is_video
    THEN <<"CreateDate", "MediaCreateDate", "TrackCreateDate", "ModifyDate">>
    ELSE <<"DateTimeOriginal", "CreateDate", "ModifyDate">>
GpsFields(lat, lon) ==
    IF lat # None /\ lon # None
    THEN Some([GPSLatitude |-> lat[1], GPSLongitude |-> lon[1],
               GPSLatitudeRef |-> IF lat[1] >= 0 THEN "N" ELSE "S",
               GPSLongitudeRef |-> IF lon[1] >= 0 THEN "E" ELSE "W"])
    ELSE None
ExiftoolCmd(naive, lat, lon, is_video) ==
    [dates |-> DateFields(is_video), date |-> naive, gps |-> GpsFields(lat, lon)]
\* int(dt.replace(tzinfo=timezone.utc).timestamp()): the naive reading taken as UTC
UtimeEpoch(naive) == naive

\* ---------------------- the extractors and write_metadata called on their own
TimestampValues == {0, 1609459200, 1625097600}
TsValues == {NumTs(n) : n \in TimestampValues} \cup {StrTs(n) : n \in TimestampValues}
PhotoTakenTimes ==
    {None} \cup {Some([timestamp |-> None])}
           \cup {Some([timestamp |-> Some(v)]) : v \in TsValues}
Coords == {-12, 0, 51}
OptCoords == {None} \cup {Some(c) : c \in Coords}
GeoDatas ==
    {None} \cup {Some([latitude |-> a, longitude |-> b]) : a \in OptCoords, b \in OptCoords}
Metas == [photoTakenTime : PhotoTakenTimes, geoData : GeoDatas]

InitMeta ==
    /\ RunIdle /\ NameIdle
    /\ sidecar \in Metas /\ use_utc \in BOOLEAN /\ zoneOk \in BOOLEAN
    /\ step = "taken" /\ dt = None /\ gps = <<>> /\ cmd = <<>> /\ utime = None

\* dt = get_taken_time(...); if not dt: continue
CallGetTakenTime ==
    /\ step = "taken"
    /\ dt' = get_taken_time(sidecar, zoneOk, use_utc)
    /\ step' = IF dt' = None THEN "skipped" ELSE "gps"
    /\ UNCHANGED <<sidecar, use_utc, zoneOk, gps, cmd, utime, runVars, nameVars>>

\* lat, lon = get_gps(meta)
CallGetGps ==
    /\ step = "gps"
    /\ gps' = get_gps(sidecar)
    /\ step' = "write"
    /\ UNCHANGED <<sidecar, use_utc, zoneOk, dt, cmd, utime, runVars, nameVars>>

\* write_metadata(new_path, dt, lat, lon, is_video, False)
CallWriteMetadata ==
    /\ step = "write"
    /\ \E is_video \in BOOLEAN :
           cmd' = Some(ExiftoolCmd(dt[1], gps[1], gps[2], is_video))
    /\ utime' = Some(UtimeEpoch(dt[1]))
    /\ step' = "done"
    /\ UNCHANGED <<sidecar, use_utc, zoneOk, dt, gps, runVars, nameVars>>

NextMeta == CallGetTakenTime \/ CallGetGps \/ CallWriteMetadata
SpecMeta == InitMeta /\ [][NextMeta]_vars

\* the record's fields, as the claims speak of them
HasTimestamp == TimestampField(sidecar) # None
HasLatLon ==
    /\ sidecar.geoData # None
    /\ sidecar.geoData[1].latitude # None
    /\ sidecar.geoData[1].longitude # None
BothZero == sidecar.geoData[1].latitude[1] = 0 /\ sidecar.geoData[1].longitude[1] = 0
ReturnedPair == gps[1] # None /\ gps[2] # None

\* C3: the epoch given to os.utime is the sidecar's timestamp, whatever the
\* timezone used for the embedded date fields.
C3_UtimeIsCaptureInstant ==
    utime # None => utime[1] = IntOf(TimestampField(sidecar)[1])

\* C4: get_gps returns a pair exactly when latitude and longitude are both
\* present and not both zero, and only then are GPS fields given to exiftool.
C4_PairIffBothPresentNonZero ==
    /\ gps # <<>> => (ReturnedPair <=> (HasLatLon /\ ~BothZero))
    /\ cmd # <<>> => (cmd[1].gps # None <=> (HasLatLon /\ ~BothZero))

\* C5: the asset is skipped for want of a capture time exactly when the record
\* has no timestamp field; a present timestamp, 0 included, gives a capture time.
C5_SkippedIffNoTimestamp ==
    step # "taken" => (step = "skipped" <=> ~HasTimestamp)

\* ------------------------------------------------------------- unique_path
PHOTO_EXTS == {".jpg", ".jpeg", ".heic", ".png"}
VIDEO_EXTS == {".mp4", ".mov", ".m4v"}
ALL_EXTS == PHOTO_EXTS \cup VIDEO_EXTS

\* A filename is its base, the " (i)" groups that follow it, and its suffix:
\* [base |-> "IMG", nums |-> <<1>>, ext |-> ".jpg"] is "IMG (1).jpg".
\* A destination path is [folder |-> label, name |-> filename]; the folder ""
\* is the destination root itself.

\* path.with_stem(f"{path.stem} ({i})")
WithNumber(path, i) == [path EXCEPT !.name.nums = Append(@, i)]

RECURSIVE FirstUnused(_, _, _)
FirstUnused(files, path, i) ==
    IF WithNumber(path, i) \notin files THEN WithNumber(path, i)
    ELSE FirstUnused(files, path, i + 1)

unique_path_NoCheck(files, path) == path
unique_path(files, path) ==
    IF path \notin files THEN path ELSE FirstUnused(files, path, 1)

\* str.lower() of the suffixes the walk meets
Lower(ext) ==
    CASE ext = ".MOV" -> ".mov"
      [] ext = ".JPG" -> ".jpg"
      [] OTHER -> ext

\* --------------------------------------------------------------- main's loop
\* What one iteration of the loop (lines 141-186) does with the file `f`,
\* the destination tree (dirs, files) and what the environment answers:
\*   env.mkdir     "ok" | "raise"                    dest_folder.mkdir
\*   env.copy      "ok" | "raise_nofile" | "raise_partial"    shutil.copy2
\*   env.exiftool  "zero" | "nonzero" | "raise"      subprocess.run(cmd)
\*   env.utime     "ok" | "raise"                    os.utime
\* and `zone`, whether ZoneInfo("Europe/London") loads.
Result(f, outcome, dirs, files, path, target, copy, exiftool) ==
    [name |-> f.name, sidecarFile |-> f.sidecarFile, outcome |-> outcome,
     dirs |-> dirs, files |-> files, path |-> path, target |-> target,
     copy |-> copy, exiftool |-> exiftool]

Untouched(f, outcome, dirs, files) ==
    Result(f, outcome, dirs, files, None, None, "none", None)

\* if not json_path.exists(): continue
NoSidecarResult_CopyFirst(f, dirs, files) ==
    LET path == [folder |-> clean_name(f.parent), name |-> f.name]
        target == unique_path(files, path)
    IN  Result(f, "nosidecar", dirs \cup {path.folder}, files \cup {target},
               Some(path), Some(target), "ok", None)
NoSidecarResult(f, dirs, files) == Untouched(f, "nosidecar", dirs, files)

\* album = meta.get("albumTitles", []); folder = clean_name(...)
FolderOf(f) ==
    IF f.meta.albumTitles # <<>> THEN clean_name(f.meta.albumTitles[1])
    ELSE clean_name(f.parent)

\* the try block, lines 151-183, and its except, lines 185-186
TryResult(f, env, zone, dirs, files) ==
    IF f.sidecarFile = "malformed" THEN Untouched(f, "fail", dirs, files)
    ELSE
    LET taken == get_taken_time(f.meta, zone, FALSE) IN
    IF taken = None THEN Untouched(f, "notime", dirs, files)
    ELSE
    LET latlon == get_gps(f.meta)
        folder == FolderOf(f)
    IN
    IF env.mkdir = "raise" THEN Untouched(f, "fail", dirs, files)
    ELSE
    LET dirs2 == IF folder = <<>> THEN dirs ELSE dirs \cup {folder}
        path == [folder |-> folder, name |-> f.name]
        new_path == unique_path(files, path)
        files2 == IF env.copy = "raise_nofile" THEN files ELSE files \cup {new_path}
        call == ExiftoolCmd(taken[1], latlon[1], latlon[2],
                            Lower(f.name.ext) \in VIDEO_EXTS)
    IN
    IF env.copy # "ok"
    THEN Result(f, "fail", dirs2, files2, Some(path), Some(new_path), env.copy, None)
    ELSE IF env.exiftool = "raise"
    THEN Result(f, "fail", dirs2, files2, Some(path), Some(new_path), "ok",
                Some("raise"))
    ELSE IF env.utime = "raise"
    THEN Result(f, "fail", dirs2, files2, Some(path), Some(new_path), "ok",
                Some(env.exiftool))
    ELSE Result(f, "ok", dirs2, files2, Some(path), Some(new_path), "ok",
                Some(env.exiftool))

\* where the loop goes after an iteration: the except clause swallows the error
AfterVisit_Propagates(outcome) == IF outcome = "fail" THEN "crashed" ELSE "walk"
AfterVisit(outcome) == "walk"

\* ------------------------------------------------------------ the walk's inputs
ImgJpg == [base |-> "IMG", nums |-> <<>>, ext |-> ".JPG"]
SrcNames == {ImgJpg, [ImgJpg EXCEPT !.nums = <<1>>], [ImgJpg EXCEPT !.ext = ".txt"]}
MediaNames == {n \in SrcNames : Lower(n.ext) \in ALL_EXTS}
ParentName == <<"a">>
WalkMetas ==
    [photoTakenTime : {None, Some([timestamp |-> Some(NumTs(0))]),
                       Some([timestamp |-> Some(StrTs(1625097600))])},
     geoData : {Some([latitude |-> Some(51), longitude |-> Some(-12)])},
     albumTitles : {<<>>, << <<".">> >>}]
TimedMetas == {m \in WalkMetas : get_taken_time(m, TRUE, FALSE) # None}
UntimedMetas == WalkMetas \ TimedMetas
NoMeta == [photoTakenTime |-> None, geoData |-> None, albumTitles |-> <<>>]
\* the environment's answers; a call that is not reached answers nothing, which
\* is written as its good answer
Envs ==
    {e \in [mkdir : {"ok", "raise"}, copy : {"ok", "raise_nofile", "raise_partial"},
            exiftool : {"zero", "nonzero", "raise"}, utime : {"ok", "raise"}] :
        /\ e.mkdir = "raise" => e.copy = "ok"
        /\ e.copy # "ok" => e.exiftool = "zero"
        /\ e.exiftool = "raise" => e.utime = "ok"}
NoEnv == [mkdir |-> "ok", copy |-> "ok", exiftool |-> "zero", utime |-> "ok"]
SrcFile(name, parent, sidecarFile, meta) ==
    [name |-> name, parent |-> parent, sidecarFile |-> sidecarFile, meta |-> meta]

\* what the destination may hold before the run
OldFiles == {[folder |-> <<"a">>, name |-> ImgJpg],
             [folder |-> <<"a">>, name |-> [ImgJpg EXCEPT !.nums = <<1>>]]}
DestTrees ==
    {[root |-> FALSE, dirs |-> {}, files |-> {}],
     [root |-> TRUE, dirs |-> {}, files |-> {}]}
    \cup {[root |-> TRUE, dirs |-> {<<"a">>}, files |-> fs] : fs \in SUBSET OldFiles}

NoVisit ==
    [name |-> ImgJpg, sidecarFile |-> "absent", outcome |-> "none", path |-> None,
     target |-> None, copy |-> "none", exiftool |-> None]

\* ------------------------------------------------------------------ main
Init ==
    /\ NameIdle /\ MetaIdle
    /\ pc = "start"
    /\ srcExists \in BOOLEAN
    /\ exiftoolInstalled \in BOOLEAN
    /\ nFiles \in 0..MaxFiles
    /\ visited = 0
    /\ dest0 \in DestTrees
    /\ destRoot = dest0.root /\ destDirs = dest0.dirs /\ destFiles = dest0.files
    /\ written = {}
    /\ last = NoVisit
    /\ failureShown = FALSE
    /\ exitStatus = None

\* if not src.exists(): print(...); return
Start ==
    /\ pc = "start"
    /\ IF srcExists
       THEN pc' = "check" /\ UNCHANGED exitStatus
       ELSE pc' = "returned" /\ exitStatus' = Some(0)
    /\ UNCHANGED <<srcExists, exiftoolInstalled, nFiles, visited, dest0, destRoot,
                   destDirs, destFiles, written, last, failureShown, nameVars, metaVars>>

\* check_exiftool(): exit(1) when "exiftool -ver" fails
CheckExiftool_AfterMkdir ==
    /\ pc = "check"
    /\ destRoot' = TRUE
    /\ IF exiftoolInstalled
       THEN pc' = "mkdir" /\ UNCHANGED exitStatus
       ELSE pc' = "exited" /\ exitStatus' = Some(1)
    /\ UNCHANGED <<srcExists, exiftoolInstalled, nFiles, visited, dest0,
                   destDirs, destFiles, written, last, failureShown, nameVars, metaVars>>
CheckExiftool ==
    /\ pc = "check"
    /\ IF exiftoolInstalled
       THEN pc' = "mkdir" /\ UNCHANGED exitStatus
       ELSE pc' = "exited" /\ exitStatus' = Some(1)
    /\ UNCHANGED <<srcExists, exiftoolInstalled, nFiles, visited, dest0, destRoot,
                   destDirs, destFiles, written, last, failureShown, nameVars, metaVars>>

\* dest.mkdir(parents=True, exist_ok=True)
MkdirDest ==
    /\ pc = "mkdir"
    /\ destRoot' = TRUE
    /\ pc' = "walk"
    /\ UNCHANGED <<srcExists, exiftoolInstalled, nFiles, visited, dest0,
                   destDirs, destFiles, written, last, failureShown, exitStatus, nameVars,
                   metaVars>>

\* the state after an iteration that ended with the result r
Visited(r) ==
    /\ visited' = visited + 1
    /\ destDirs' = r.dirs
    /\ destFiles' = r.files
    /\ written' = IF r.copy \in {"ok", "raise_partial"}
                  THEN written \cup {<<r.path[1], r.target[1]>>}
                  ELSE written
    /\ last' = [name |-> r.name, sidecarFile |-> r.sidecarFile,
                outcome |-> r.outcome, path |-> r.path, target |-> r.target,
                copy |-> r.copy, exiftool |-> r.exiftool]
    /\ failureShown' = (failureShown \/ r.outcome = "fail")
    /\ pc' = AfterVisit(r.outcome)
    /\ UNCHANGED <<srcExists, exiftoolInstalled, nFiles, dest0, destRoot,
                   exitStatus, nameVars, metaVars>>

\* if path.suffix.lower() not in ALL_EXTS: continue
VisitOther ==
    /\ pc = "walk" /\ visited < nFiles
    /\ \E name \in SrcNames \ MediaNames, sc \in {"absent", "ok"} :
        Visited(Untouched(SrcFile(name, ParentName, sc, NoMeta), "nonmedia",
                          destDirs, destFiles))

\* a media file with no "<filename>.json" beside it
VisitNoSidecar ==
    /\ pc = "walk" /\ visited < nFiles
    /\ \E name \in MediaNames :
        Visited(NoSidecarResult(SrcFile(name, ParentName, "absent", NoMeta),
                                destDirs, destFiles))

\* a media file whose sidecar json.load cannot parse
VisitMalformed ==
    /\ pc = "walk" /\ visited < nFiles
    /\ \E name \in MediaNames :
        Visited(TryResult(SrcFile(name, ParentName, "malformed", NoMeta), NoEnv, TRUE,
                          destDirs, destFiles))

\* a media file whose sidecar gives no capture time
VisitNoTime ==
    /\ pc = "walk" /\ visited < nFiles
    /\ \E name \in MediaNames, meta \in UntimedMetas :
        Visited(TryResult(SrcFile(name, ParentName, "ok", meta), NoEnv, TRUE,
                          destDirs, destFiles))

\* a media file whose sidecar gives a capture time
VisitAsset ==
    /\ pc = "walk" /\ visited < nFiles
    /\ \E name \in MediaNames, meta \in TimedMetas, env \in Envs :
        Visited(TryResult(SrcFile(name, ParentName, "ok", meta), env, TRUE,
                          destDirs, destFiles))

\* print("\nDone.")
Finish ==
    /\ pc = "walk" /\ visited = nFiles
    /\ pc' = "done"
    /\ exitStatus' = Some(0)
    /\ UNCHANGED <<srcExists, exiftoolInstalled, nFiles, visited, dest0, destRoot,
                   destDirs, destFiles, written, last, failureShown, nameVars, metaVars>>

Next == Start \/ CheckExiftool \/ MkdirDest \/ VisitOther \/ VisitNoSidecar
        \/ VisitMalformed \/ VisitNoTime \/ VisitAsset \/ Finish
Spec == Init /\ [][Next]_vars
\* the run is one sequential thread whose calls return: a step that can be
\* taken is taken
FairSpec == Spec /\ WF_vars(Next)

\* ------------------------------------------------------- claims on the run
CurrentDest == [root |-> destRoot, dirs |-> destDirs, files |-> destFiles]

\* the step is a placement: unique_path chose a target and shutil.copy2 ran
Placement == visited' = visited + 1 /\ last'.copy # "none"

\* the targets written by the earlier placements of the desired path
WrittenBy(path) == {w[2] : w \in {x \in written : x[1] = path}}

\* the desired path and its numbered variants that exist
Family(files, path) ==
    {f \in files : f = path \/ \E i \in 1..Cardinality(files) : f = WithNumber(path, i)}

\* the path's k-th name: itself, then "<stem> (1)", "<stem> (2)", ...
KthName(path, k) == IF k = 0 THEN path ELSE WithNumber(path, k)

\* C1 as stated: no placement writes to an existing path, and the Nth
\* placement of a filename into a folder is written to the name itself for
\* N = 1 and to "<stem> (N-1)<ext>" for N >= 2.
C1_NthGetsSuffix ==
    [][(Placement /\ last'.copy = "ok") =>
        /\ last'.target[1] \notin destFiles
        /\ destFiles \subseteq destFiles'
        /\ last'.target[1] =
               KthName(last'.path[1], Cardinality(WrittenBy(last'.path[1])))]_vars

\* C1 amended: no placement writes to an existing path and no file leaves the
\* folder; the target is the first unused name among the filename,
\* "<stem> (1)<ext>", "<stem> (2)<ext>", ...; and when the names of that
\* family present in the folder are exactly those the earlier placements of
\* the filename wrote, the Nth placement is written to "<stem> (N-1)<ext>".
C1_FirstUnusedName ==
    [][Placement =>
        LET path == last'.path[1]
            target == last'.target[1]
            earlier == WrittenBy(path)
        IN  /\ target \notin destFiles
            /\ destFiles \subseteq destFiles'
            /\ \E k \in 0..Cardinality(destFiles) :
                   /\ target = KthName(path, k)
                   /\ \A j \in 0..(k - 1) : KthName(path, j) \in destFiles
            /\ Family(destFiles, path) = earlier
                   => target = KthName(path, Cardinality(earlier))]_vars

\* the second placement of one filename into a folder that held none of its
\* names got "<stem> (1)<ext>"
C1_Witness ==
    /\ last.copy = "ok"
    /\ last.target = Some(WithNumber(last.path[1], 1))
    /\ WrittenBy(last.path[1]) = {last.path[1], WithNumber(last.path[1], 1)}
    /\ Family(dest0.files, last.path[1]) = {}

\* C6: visiting a media file that has no sidecar leaves the destination tree
\* as it was: no folder and no file is created.
C6_NoSidecarNoArtifact ==
    [][(visited' = visited + 1 /\ last'.sidecarFile = "absent"
            /\ Lower(last'.name.ext) \in ALL_EXTS)
        => (CurrentDest' = CurrentDest /\ last'.target = None)]_vars

\* a media file without sidecar was visited after another asset had been copied
C6_Witness ==
    /\ visited >= 2
    /\ last.outcome = "nosidecar"
    /\ last.name \in MediaNames
    /\ destFiles # dest0.files

\* C7: once an asset has failed, the walk still visits every enumerated file
\* and the run ends with the completion line.
C7_FailureNeverStopsWalk ==
    failureShown ~> (pc = "done" /\ visited = nFiles)

\* an asset failed, a later one succeeded, and the run completed
C7_Witness ==
    /\ pc = "done"
    /\ visited = nFiles
    /\ failureShown
    /\ last.outcome = "ok"

\* C8: an asset for which exiftool ends with a non-zero status is reported as
\* a failure.
C8_ExiftoolFailureReported ==
    last.exiftool = Some("nonzero") => last.outcome = "fail"

\* C10 as stated: with exiftool missing the run ends with a non-zero status
\* and the destination is untouched.
C10_MissingToolAborts ==
    (~exiftoolInstalled /\ exitStatus # None)
        => (exitStatus # Some(0) /\ CurrentDest = dest0 /\ visited = 0)

\* C10 amended: with exiftool missing and the source folder present, the run
\* ends at the presence check with status 1, before the destination root is
\* created and before the walk: the destination is untouched and no file is
\* visited.  (With the source folder missing too, main returns before the
\* check with status 0.)
C10_MissingToolAbortsWhenSourceExists ==
    (~exiftoolInstalled /\ srcExists)
        => /\ pc \in {"start", "check", "exited"}
           /\ CurrentDest = dest0
           /\ visited = 0
           /\ exitStatus \in {None, Some(1)}
           /\ (pc = "exited" <=> exitStatus = Some(1))

\* the run has ended at the check, and the missing destination root is still missing
C10_Witness ==
    /\ ~exiftoolInstalled /\ srcExists
    /\ pc = "exited" /\ exitStatus = Some(1)
    /\ ~dest0.root /\ ~destRoot

=============================================================================
